---- MODULE Spec2Model ----
(***************************************************************************)
(* envdo: load KEY=VALUE pairs from .env files found in the working        *)
(* directory and in <configDir>/envdo, merge them (working directory       *)
(* wins) and either print them as export lines or run a command with them. *)
(*                                                                         *)
(* A line of text is a sequence of one-character strings, so that          *)
(* trimming, splitting and quote stripping are computed character by       *)
(* character as package env does.  A file is a sequence of lines, the      *)
(* tokens bufio.Scanner hands to loadEnvFile.  Paths, the profile and the  *)
(* directory names are TLA+ strings.                                       *)
(***************************************************************************)
EXTENDS Integers, Sequences, FiniteSets, TLC

VARIABLES
    profile,    \* cmd: the --profile flag
    sys,        \* the process's surroundings: os.Getwd, XDG_CONFIG_HOME, home
    fs,         \* the file system: path -> [exists, lines]
    e,          \* env.Env{pwd, configDir}
    pc,         \* position of the run
    filename,   \* LoadEnvFiles: filename
    dirs,       \* LoadEnvFiles: dirs
    i,          \* LoadEnvFiles: loop index, 1-based (Go's i+1)
    envs,       \* LoadEnvFiles: envs, the map loadEnvFile writes into
    pos,        \* loadEnvFile: number of the next line the scanner yields
    outcome,    \* per search directory: what became of its target file: "none",
                \* "missing", "staterr", "vanished", "openerr", "readerr" or "read"
    ret,        \* LoadEnvFiles: the returned map (or nil)
    err,        \* LoadEnvFiles: the returned error
    printed,    \* cmd: the export lines written to stdout
    stderr,     \* cmd: the error cobra reports, if any
    child,      \* cmd: the child process
    exit        \* the process's exit status (-1 while running)

vars == <<profile, sys, fs, e, pc, filename, dirs, i, envs, pos,
          outcome, ret, err, printed, stderr, child, exit>>

(***************************************************************************)
(* Bounds of the model.                                                    *)
(***************************************************************************)
MaxTotalLines == 3      \* lines held by all files together (Spec)
MaxLineLen == 5         \* characters of the line under test (SpecLine)

(***************************************************************************)
(* Characters and strings.                                                 *)
(***************************************************************************)
DQ == "\""
SQ == "'"
Space == " "

RECURSIVE TrimLeft(_)
\* strings.TrimSpace, the leading half
TrimLeft(s) ==
    IF s # <<>> /\ Head(s) = Space THEN TrimLeft(Tail(s)) ELSE s

RECURSIVE TrimRight(_)
\* strings.TrimSpace, the trailing half
TrimRight(s) ==
    IF s # <<>> /\ s[Len(s)] = Space THEN TrimRight(SubSeq(s, 1, Len(s) - 1)) ELSE s

\* strings.TrimSpace
TrimSpace(s) == TrimRight(TrimLeft(s))

\* strings.HasPrefix(s, c) for a one-character prefix
HasPrefix(s, c) == Len(s) >= 1 /\ s[1] = c

\* strings.Index(s, c): position of the first c in s, 0 when there is none
Index(s, c) ==
    IF \E n \in 1..Len(s) : s[n] = c
    THEN CHOOSE n \in 1..Len(s) : s[n] = c /\ \A m \in 1..(n - 1) : s[m] # c
    ELSE 0

\* strings.SplitN(s, "=", 2)
SplitN2(s) ==
    LET n == Index(s, "=")
    IN  IF n = 0 THEN <<s>>
        ELSE <<SubSeq(s, 1, n - 1), SubSeq(s, n + 1, Len(s))>>

\* filepath.Join of two clean, non-empty elements
Join(a, b) == a \o "/" \o b

(***************************************************************************)
(* Maps (map[string]string).                                               *)
(***************************************************************************)
EmptyMap == [k \in {} |-> <<>>]

\* Faulty variant of MapSet: a key that is set keeps its value.
MapSetKeep(m, k, v) ==
    IF k \in DOMAIN m THEN m ELSE [x \in DOMAIN m \cup {k} |-> IF x = k THEN v ELSE m[x]]

\* envs[key] = value
MapSet(m, k, v) ==
    [x \in DOMAIN m \cup {k} |-> IF x = k THEN v ELSE m[x]]

(***************************************************************************)
(* loadEnvFile: the body of the scanner loop.                              *)
(***************************************************************************)
\* Faulty variant of Quoted: any quote at either end, one character suffices.
QuotedLoose(value) ==
    Len(value) >= 1
    /\ value[1] \in {DQ, SQ} /\ value[Len(value)] \in {DQ, SQ}

\* the condition of "Remove quotes if present"
Quoted(value) ==
    Len(value) >= 2
    /\ \/ (value[1] = DQ /\ value[Len(value)] = DQ)
       \/ (value[1] = SQ /\ value[Len(value)] = SQ)

\* value = value[1 : len(value)-1] when quoted
Unquote(value) ==
    IF Quoted(value) THEN SubSeq(value, 2, Len(value) - 1) ELSE value

\* Faulty variant of SkipLine: comments are not skipped.
SkipLineNoComment(line) == line = <<>>

\* "Skip empty lines and comments", on the trimmed line
SkipLine(line) == line = <<>> \/ HasPrefix(line, "#")

\* Faulty variant of ValidParts: a line with an empty key is skipped too.
ValidPartsKeyed(parts) == Len(parts) = 2 /\ TrimSpace(parts[1]) # <<>>

\* len(parts) != 2 -> continue
ValidParts(parts) == Len(parts) = 2

\* One scanned token: [ok, key, value]; ok is FALSE when the loop continues
\* without writing to the map.
ParseLine(text) ==
    LET line == TrimSpace(text)
        parts == SplitN2(line)
    IN  IF SkipLine(line) \/ ~ValidParts(parts)
        THEN [ok |-> FALSE, key |-> <<>>, value |-> <<>>]
        ELSE [ok |-> TRUE,
              key |-> TrimSpace(parts[1]),
              value |-> Unquote(TrimSpace(parts[2]))]

\* Faulty variant of ApplyLine: a key the map holds is not written again.
ApplyLineFirst(m, text) ==
    LET p == ParseLine(text)
    IN  IF p.ok /\ p.key \notin DOMAIN m THEN MapSet(m, p.key, p.value) ELSE m

\* One iteration of the scanner loop on the map envs
ApplyLine(m, text) ==
    LET p == ParseLine(text)
    IN  IF p.ok THEN MapSet(m, p.key, p.value) ELSE m

RECURSIVE loadEnvFile(_, _)
\* loadEnvFile on a file that opens and reads without error: the scanner
\* loop run over all its lines on the map m
loadEnvFile(lines, m) ==
    IF lines = <<>> THEN m ELSE loadEnvFile(Tail(lines), ApplyLine(m, Head(lines)))

(***************************************************************************)
(* LoadEnvFiles: file name and search directories.                         *)
(***************************************************************************)
\* Faulty variant of EnvFilename: the profile is ignored.
EnvFilenamePlain(p) == ".env"

\* "Determine .env filename"
EnvFilename(p) == IF p # "" THEN ".env." \o p ELSE ".env"

\* Faulty variant of getSearchDirectories: the config directory is left out.
getSearchDirectoriesPwdOnly(pwd, configDir) ==
    IF pwd # "" THEN <<pwd>> ELSE <<>>

\* getSearchDirectories: [pwd, configDir/envdo], empty ones left out
getSearchDirectories(pwd, configDir) ==
    (IF pwd # "" THEN <<pwd>> ELSE <<>>)
    \o (IF configDir # "" THEN <<Join(configDir, "envdo")>> ELSE <<>>)

\* The package-level LoadEnvFiles: pwd is "" when os.Getwd fails
DefaultPwd(s) == IF s.getwd # "" THEN s.getwd ELSE ""

\* The package-level LoadEnvFiles: XDG_CONFIG_HOME, else <home>/.config, else ""
DefaultConfigDir(s) ==
    IF s.xdg # "" THEN s.xdg
    ELSE IF s.home # "" THEN Join(s.home, ".config") ELSE ""

(***************************************************************************)
(* Errors.                                                                 *)
(***************************************************************************)
NoErr == [kind |-> "nil", path |-> ""]

\* fmt.Errorf("failed to load %s: %w", envPath, err)
WrapErr(kind, path) == [kind |-> kind, path |-> path]

\* Faulty variant of OpenErrReturn: a missing file is an error as well.
OpenErrReturnAll(kind) == kind

\* loadEnvFile after a failed os.Open: nil for os.IsNotExist, err otherwise
OpenErrReturn(kind) == IF kind = "ENOENT" THEN "nil" ELSE kind

NilMap == [nil |-> TRUE, m |-> EmptyMap]

\* Faulty variant of FailRet: the partly filled map is returned.
FailRetPartial(m) == [nil |-> FALSE, m |-> m]

\* "return nil, fmt.Errorf(...)": the map is dropped
FailRet(m) == NilMap

(***************************************************************************)
(* The inputs of a run.                                                    *)
(***************************************************************************)
Profiles == {"", "P"}
Filenames == {".env", ".env.P"}

WorkDir == "/w"
XdgDir == "/c"
HomeDir == "/h"
AllDirs == {"/w", "/c/envdo", "/h/.config/envdo"}
AllPaths == {Join(d, f) : d \in AllDirs, f \in Filenames}

\* os.Getwd (or "" when it fails), $XDG_CONFIG_HOME, the home directory
\* (or "" when os.UserHomeDir fails).  The home directory is looked at only
\* when XDG_CONFIG_HOME is empty.
Surroundings ==
    {s \in [getwd : {"", WorkDir}, xdg : {"", XdgDir}, home : {"", HomeDir}] :
        s.xdg # "" => s.home = HomeDir}

Absent == [exists |-> FALSE, lines |-> <<>>]
File(lines) == [exists |-> TRUE, lines |-> lines]

\* The lines of the files of Spec: K set to a value and to the empty
\* value, and J set to a value.
FileLines ==
    { <<"K", "=", "a">>, <<"K", "=">>, <<"J", "=", "b">> }

\* The number of lines of a file: -1 stands for a file that does not exist.
LineCounts == -1 .. MaxTotalLines
Held(c) == IF c < 0 THEN 0 ELSE c
FileOf(c, lines) == IF c < 0 THEN Absent ELSE File(lines)
LinesOf(c) == [1..Held(c) -> FileLines]

\* The configuration directory searched under the surroundings s, "" if none.
ConfigDirHoldingFiles(s) ==
    IF s.xdg # "" THEN "/c/envdo"
    ELSE IF s.home # "" THEN "/h/.config/envdo" ELSE ""

\* The file system with the four given files and no file at any other path.
FileSystem(s, w, wP, c, cP) ==
    [p \in AllPaths |->
        IF p = "/w/.env" THEN w
        ELSE IF p = "/w/.env.P" THEN wP
        ELSE IF p = Join(ConfigDirHoldingFiles(s), ".env") THEN c
        ELSE IF p = Join(ConfigDirHoldingFiles(s), ".env.P") THEN cP
        ELSE Absent]

\* The characters of the line under test in SpecLine.
LineChars == {"K", "=", Space, "#", DQ, SQ}
TestLines == UNION {[1..n -> LineChars] : n \in 0..MaxLineLen}

\* The line before and the line after the line under test.
LineBefore == <<"J", "=", "a">>
LineAfter == <<"L", "=", "b">>
TestPath == "/w/.env"
TestDir == "/w"

\* The exit status of the child: 0, or a status other than 0 (1 stands for
\* every such status).
ExitCodes == {0, 1}

NoChild == [started |-> FALSE, env |-> EmptyMap]

InitRun ==
    /\ e = [pwd |-> "", configDir |-> ""]
    /\ pc = "RunE"
    /\ filename = ""
    /\ dirs = <<>>
    /\ i = 0
    /\ envs = EmptyMap
    /\ pos = 0
    /\ outcome = [d \in AllDirs |-> "none"]
    /\ ret = NilMap
    /\ err = NoErr
    /\ printed = {}
    /\ stderr = NoErr
    /\ child = NoChild
    /\ exit = -1

Init ==
    /\ profile \in Profiles
    /\ sys \in Surroundings
    \* files only where the run may look, MaxTotalLines lines in all
    /\ \E n1, n2, n3, n4 \in LineCounts :
          /\ Held(n1) + Held(n2) + Held(n3) + Held(n4) <= MaxTotalLines
          /\ sys.getwd = "" => (n1 = -1 /\ n2 = -1)
          /\ ConfigDirHoldingFiles(sys) = "" => (n3 = -1 /\ n4 = -1)
          /\ \E l1 \in LinesOf(n1), l2 \in LinesOf(n2),
                l3 \in LinesOf(n3), l4 \in LinesOf(n4) :
                fs = FileSystem(sys, FileOf(n1, l1), FileOf(n2, l2),
                                FileOf(n3, l3), FileOf(n4, l4))
    /\ InitRun

InitLine ==
    /\ profile = ""
    /\ sys = [getwd |-> WorkDir, xdg |-> XdgDir, home |-> HomeDir]
    /\ \E t \in TestLines, around \in BOOLEAN :
           fs = FileSystem(sys,
                    File(IF around THEN <<LineBefore, t, LineAfter>> ELSE <<t>>),
                    Absent, Absent, Absent)
    /\ InitRun

(***************************************************************************)
(* The run: cmd.rootCmd.RunE calling env.LoadEnvFiles.                     *)
(***************************************************************************)
\* Faulty variant of DirAt: the loop runs from the highest priority down.
DirAtForward(ds, n) == ds[Len(ds) + 1 - n]

\* dirs[i] in the loop "for i := len(dirs) - 1; i >= 0; i--"
DirAt(ds, n) == ds[n]

\* filepath.Join(dirs[i], filename)
EnvPath == Join(DirAt(dirs, i), filename)

\* RunE calls the package-level LoadEnvFiles, which builds the Env and
\* calls Env.LoadEnvFiles up to the head of its loop.
LoadEnvFiles ==
    /\ pc = "RunE"
    /\ e' = [pwd |-> DefaultPwd(sys), configDir |-> DefaultConfigDir(sys)]
    /\ envs' = EmptyMap
    /\ filename' = EnvFilename(profile)
    /\ dirs' = getSearchDirectories(e'.pwd, e'.configDir)
    /\ i' = Len(dirs')
    /\ pc' = "loop"
    /\ UNCHANGED <<profile, sys, fs, pos, outcome, ret, err, printed, stderr, child, exit>>

\* os.Stat(envPath) returns an error: the directory is passed over.  The
\* error is that the file does not exist, or any other (the file exists but
\* e.g. its directory cannot be searched); the code does not tell them apart.
StatErr ==
    /\ pc = "loop" /\ i >= 1
    /\ \E kind \in {"ENOENT", "EACCES"} :
          /\ kind = "ENOENT" <=> ~fs[EnvPath].exists
          /\ outcome' = [outcome EXCEPT ![DirAt(dirs, i)] =
                            IF kind = "ENOENT" THEN "missing" ELSE "staterr"]
    /\ i' = i - 1
    /\ UNCHANGED <<profile, sys, fs, e, pc, filename, dirs, envs, pos,
                   ret, err, printed, stderr, child, exit>>

\* os.Stat(envPath) succeeds: loadEnvFile is called.
StatOk ==
    /\ pc = "loop" /\ i >= 1
    /\ fs[EnvPath].exists
    /\ pc' = "open"
    /\ UNCHANGED <<profile, sys, fs, e, filename, dirs, i, envs, pos,
                   outcome, ret, err, printed, stderr, child, exit>>

\* Another process removes the file between os.Stat and os.Open.
RaceRemove ==
    /\ pc = "open"
    /\ fs[EnvPath].exists
    /\ fs' = [fs EXCEPT ![EnvPath] = Absent]
    /\ UNCHANGED <<profile, sys, e, pc, filename, dirs, i, envs, pos,
                   outcome, ret, err, printed, stderr, child, exit>>

\* os.Open(filename) fails.  ENOENT when the file is gone, EACCES when it is
\* there and may not be read.  loadEnvFile returns OpenErrReturn; on a
\* non-nil error LoadEnvFiles returns.
OpenFail ==
    /\ pc = "open"
    /\ \E kind \in {"ENOENT", "EACCES"} :
          /\ kind = "ENOENT" <=> ~fs[EnvPath].exists
          /\ IF OpenErrReturn(kind) = "nil"
             THEN /\ outcome' = [outcome EXCEPT ![DirAt(dirs, i)] = "vanished"]
                  /\ i' = i - 1
                  /\ pc' = "loop"
                  /\ UNCHANGED <<ret, err>>
             ELSE /\ outcome' = [outcome EXCEPT ![DirAt(dirs, i)] = "openerr"]
                  /\ ret' = FailRet(envs)
                  /\ err' = WrapErr(OpenErrReturn(kind), EnvPath)
                  /\ pc' = "loaded"
                  /\ i' = i
    /\ UNCHANGED <<profile, sys, fs, e, filename, dirs, envs, pos,
                   printed, stderr, child, exit>>

\* os.Open(filename) succeeds; the scanner is created.
OpenOk ==
    /\ pc = "open"
    /\ fs[EnvPath].exists
    /\ pos' = 1
    /\ pc' = "scan"
    /\ UNCHANGED <<profile, sys, fs, e, filename, dirs, i, envs,
                   outcome, ret, err, printed, stderr, child, exit>>

\* scanner.Scan() yields the next line: one iteration of the loop.
ScanLine ==
    /\ pc = "scan"
    /\ pos <= Len(fs[EnvPath].lines)
    /\ envs' = ApplyLine(envs, fs[EnvPath].lines[pos])
    /\ pos' = pos + 1
    /\ UNCHANGED <<profile, sys, fs, e, pc, filename, dirs, i,
                   outcome, ret, err, printed, stderr, child, exit>>

\* scanner.Scan() returns false at the end of the file; scanner.Err() is nil.
ScanEOF ==
    /\ pc = "scan"
    /\ pos > Len(fs[EnvPath].lines)
    /\ outcome' = [outcome EXCEPT ![DirAt(dirs, i)] = "read"]
    /\ i' = i - 1
    /\ pc' = "loop"
    /\ UNCHANGED <<profile, sys, fs, e, filename, dirs, envs, pos,
                   ret, err, printed, stderr, child, exit>>

\* scanner.Scan() returns false on a read error (a device error, a directory,
\* a token too long), after any number of lines; scanner.Err() is returned
\* and LoadEnvFiles returns.
ScanFail ==
    /\ pc = "scan"
    /\ outcome' = [outcome EXCEPT ![DirAt(dirs, i)] = "readerr"]
    /\ ret' = FailRet(envs)
    /\ err' = WrapErr("EIO", EnvPath)
    /\ pc' = "loaded"
    /\ UNCHANGED <<profile, sys, fs, e, filename, dirs, i, envs, pos,
                   printed, stderr, child, exit>>

\* The loop is over: return envs, nil.
LoadReturn ==
    /\ pc = "loop" /\ i = 0
    /\ ret' = [nil |-> FALSE, m |-> envs]
    /\ err' = NoErr
    /\ pc' = "loaded"
    /\ UNCHANGED <<profile, sys, fs, e, filename, dirs, i, envs, pos,
                   outcome, printed, stderr, child, exit>>

(***************************************************************************)
(* cmd: what RunE does with the result, and Execute with RunE's error.     *)
(* args, the command line after the flags, is read here for the first      *)
(* time: args is TRUE when len(args) # 0.                                  *)
(***************************************************************************)
\* Faulty variant of RunEBranch: the error of LoadEnvFiles is not looked at.
RunEBranchIgnoreErr(er, args) == IF ~args THEN "print" ELSE "exec"

\* RunE after env.LoadEnvFiles: return the error, print, or run the command
RunEBranch(er, args) ==
    IF er.kind # "nil" THEN "fail"
    ELSE IF ~args THEN "print" ELSE "exec"

\* range over a map; ranging over a nil map yields nothing
Entries(r) == IF r.nil THEN {} ELSE {<<k, r.m[k]>> : k \in DOMAIN r.m}

\* err != nil: RunE returns the wrapped error, cobra reports it and Execute
\* calls os.Exit(1).
RunEFail ==
    /\ pc = "loaded"
    /\ \E args \in BOOLEAN : RunEBranch(err, args) = "fail"
    /\ stderr' = err
    /\ exit' = 1
    /\ pc' = "exit"
    /\ UNCHANGED <<profile, sys, fs, e, filename, dirs, i, envs, pos,
                   outcome, ret, err, printed, child>>

\* len(args) == 0: one export line per entry, in the map's order.
RunEPrint ==
    /\ pc = "loaded"
    /\ \E args \in BOOLEAN : RunEBranch(err, args) = "print"
    /\ printed' = Entries(ret)
    /\ exit' = 0
    /\ pc' = "exit"
    /\ UNCHANGED <<profile, sys, fs, e, filename, dirs, i, envs, pos,
                   outcome, ret, err, stderr, child>>

\* c.Run() with c.Env = os.Environ() followed by the loaded entries.  The
\* command starts, or it does not (not found): then RunE returns the error,
\* which is not an ExitError and is not reported (SilenceErrors), and
\* Execute calls os.Exit(1).
RunEExec ==
    /\ pc = "loaded"
    /\ \E args \in BOOLEAN : RunEBranch(err, args) = "exec"
    /\ \E started \in BOOLEAN :
          IF started
          THEN /\ child' = [started |-> TRUE,
                            env |-> [k \in {x[1] : x \in Entries(ret)} |-> ret.m[k]]]
               /\ pc' = "child"
               /\ exit' = exit
          ELSE /\ exit' = 1
               /\ pc' = "exit"
               /\ child' = child
    /\ UNCHANGED <<profile, sys, fs, e, filename, dirs, i, envs, pos,
                   outcome, ret, err, printed, stderr>>

\* The child ends: status 0 and RunE returns nil, or an ExitError and RunE
\* calls os.Exit(exitError.ExitCode()).
ChildExit ==
    /\ pc = "child"
    /\ \E code \in ExitCodes : exit' = code
    /\ pc' = "exit"
    /\ UNCHANGED <<profile, sys, fs, e, filename, dirs, i, envs, pos,
                   outcome, ret, err, printed, stderr, child>>

Next ==
    \/ LoadEnvFiles
    \/ StatErr
    \/ StatOk
    \/ RaceRemove
    \/ OpenFail
    \/ OpenOk
    \/ ScanLine
    \/ ScanEOF
    \/ ScanFail
    \/ LoadReturn
    \/ RunEFail
    \/ RunEPrint
    \/ RunEExec
    \/ ChildExit

\* Runs over files of a few whole lines each.
Spec == Init /\ [][Next]_vars

\* Runs over one file holding one line of arbitrary characters.
SpecLine == InitLine /\ [][Next]_vars

(***************************************************************************)
(* Properties.  What they say of the files is stated from the inputs of    *)
(* the run (profile, sys, fs), not from the variables LoadEnvFiles sets.   *)
(***************************************************************************)
\* LoadEnvFiles has returned; ret and err do not change afterwards.
Returned == pc \in {"loaded", "child", "exit"}

\* The name of the file a run with this profile is to look for.
Target == IF profile = "" THEN ".env" ELSE ".env.P"

PwdSearched == sys.getwd # ""
ConfigSearched == ConfigDirHoldingFiles(sys) # ""
ConfigDir == ConfigDirHoldingFiles(sys)
\* The search directories, highest priority first.
Searched ==
    (IF PwdSearched THEN <<WorkDir>> ELSE <<>>)
    \o (IF ConfigSearched THEN <<ConfigDir>> ELSE <<>>)
SearchedSet == {Searched[n] : n \in 1..Len(Searched)}

PwdFile == Join(WorkDir, Target)
ConfigFile == Join(ConfigDir, Target)

\* What a file defines: the map its lines yield on their own.
FileMap(p) == loadEnvFile(fs[p].lines, EmptyMap)

\* LoadEnvFiles returned without error, both target files are there and
\* os.Stat failed on neither.
BothLoaded ==
    /\ Returned /\ err = NoErr
    /\ PwdSearched /\ ConfigSearched
    /\ fs[PwdFile].exists /\ fs[ConfigFile].exists
    /\ outcome[WorkDir] # "staterr" /\ outcome[ConfigDir] # "staterr"

\* C1 (precedence): when both the working-directory file and the
\* <configRoot>/envdo file have been loaded and both define a key, the
\* returned map holds the working-directory file's value for it, wherever
\* the key stands in either file and also when that value is empty.
C1_Precedence ==
    BothLoaded =>
        /\ ~ret.nil
        /\ \A k \in DOMAIN FileMap(PwdFile) \cap DOMAIN FileMap(ConfigFile) :
              k \in DOMAIN ret.m /\ ret.m[k] = FileMap(PwdFile)[k]

\* The working-directory file sets K to the empty value on its second line,
\* the configuration file sets K to a, and the result holds the empty value.
C1_Witness ==
    /\ BothLoaded /\ pc = "exit"
    /\ fs[PwdFile].lines = << <<"J", "=", "b">>, <<"K", "=">> >>
    /\ fs[ConfigFile].lines = << <<"K", "=", "a">> >>
    /\ ret.m[<<"K">>] = <<>>

\* C2 (additive merge): when both files have been loaded, the keys of the
\* returned map are exactly the keys either file defines, and a key only the
\* <configRoot>/envdo file defines has that file's value.
C2_AdditiveMerge ==
    BothLoaded =>
        /\ ~ret.nil
        /\ DOMAIN ret.m = DOMAIN FileMap(PwdFile) \cup DOMAIN FileMap(ConfigFile)
        /\ \A k \in DOMAIN FileMap(ConfigFile) \ DOMAIN FileMap(PwdFile) :
              ret.m[k] = FileMap(ConfigFile)[k]

\* The working-directory file defines K only, the configuration file J
\* only, and the result holds both.
C2_Witness ==
    /\ BothLoaded /\ pc = "exit"
    /\ DOMAIN FileMap(PwdFile) = {<<"K">>}
    /\ DOMAIN FileMap(ConfigFile) = {<<"J">>}
    /\ ret.m = (<<"K">> :> <<"a">>) @@ (<<"J">> :> <<"b">>)

\* What the search directories other than d have contributed.
RECURSIVE OthersLoaded(_, _)
OthersLoaded(ds, d) ==
    IF ds = <<>> THEN EmptyMap
    ELSE LET rest == OthersLoaded(Tail(ds), d)
             mine == IF Head(ds) # d /\ outcome[Head(ds)] = "read"
                     THEN FileMap(Join(Head(ds), Target)) ELSE EmptyMap
         IN  [k \in DOMAIN mine \cup DOMAIN rest |->
                 IF k \in DOMAIN mine THEN mine[k] ELSE rest[k]]

\* C3 (missing-file tolerance): a search directory whose target file is not
\* there, at os.Stat or at os.Open, is never the cause of an error and
\* contributes nothing, and the other directory is still looked at; when
\* no search directory has the file, the result is the empty map and no error.
C3_MissingFileTolerance ==
    Returned =>
        /\ \A d \in SearchedSet :
              ~fs[Join(d, Target)].exists =>
                 /\ err.path # Join(d, Target)
                 /\ outcome[d] \in {"none", "missing", "vanished"}
                 /\ err = NoErr =>
                       /\ ~ret.nil
                       /\ ret.m = OthersLoaded(Searched, d)
                       /\ \A o \in SearchedSet : outcome[o] # "none"
        /\ (\A d \in SearchedSet : ~fs[Join(d, Target)].exists) =>
              (err = NoErr /\ ret = [nil |-> FALSE, m |-> EmptyMap])

\* The configuration file was removed between os.Stat and os.Open, the run
\* went on to the working directory and returned what its file defines.
C3_Witness ==
    /\ pc = "exit" /\ err = NoErr
    /\ ConfigSearched /\ outcome[ConfigDir] = "vanished"
    /\ outcome[WorkDir] = "read"
    /\ ret.m = (<<"K">> :> <<"a">>)

\* C4 (profile filename selection): every entry of the returned map is
\* defined by a file named .env (empty profile) or .env.<profile> of a
\* search directory, no file of the other name is opened or named in the
\* error, and nothing is returned when no file of that name is there.
C4_ProfileFilename ==
    Returned =>
        /\ err.path \in {Join(d, Target) : d \in SearchedSet} \cup {""}
        /\ ~ret.nil =>
              LET named == [d \in SearchedSet |->
                              IF fs[Join(d, Target)].exists
                              THEN FileMap(Join(d, Target)) ELSE EmptyMap]
              IN  \A k \in DOMAIN ret.m :
                     \E d \in SearchedSet :
                        k \in DOMAIN named[d] /\ named[d][k] = ret.m[k]

\* A profile is given, the working directory has a plain .env defining K
\* and no .env.P, and the result is empty.
C4_Witness ==
    /\ pc = "exit" /\ err = NoErr
    /\ profile = "P" /\ PwdSearched
    /\ <<"K">> \in DOMAIN FileMap(Join(WorkDir, ".env"))
    /\ ~fs[Join(WorkDir, ".env.P")].exists
    /\ outcome[WorkDir] = "missing"
    /\ ret = [nil |-> FALSE, m |-> EmptyMap]

(***************************************************************************)
(* Properties of one line (SpecLine): the working directory's .env holds   *)
(* the line under test, alone or between J=a and L=b.                      *)
(***************************************************************************)
\* LoadEnvFiles has returned and the file was read to its end.
LineRead == Returned /\ outcome[TestDir] = "read"

Around == Len(fs[TestPath].lines) = 3
TestLine == IF Around THEN fs[TestPath].lines[2] ELSE fs[TestPath].lines[1]
\* What the lines around the line under test define.
AroundMap ==
    IF Around THEN (<<"J">> :> <<"a">>) @@ (<<"L">> :> <<"b">>) ELSE EmptyMap

Trimmed == TrimSpace(TestLine)
\* The line is non-empty after trimming, is no comment and holds a "=".
Accepted ==
    /\ Trimmed # <<>>
    /\ Trimmed[1] # "#"
    /\ \E n \in 1..Len(Trimmed) : Trimmed[n] = "="
FirstEq == CHOOSE n \in 1..Len(Trimmed) :
               Trimmed[n] = "=" /\ \A j \in 1..(n - 1) : Trimmed[j] # "="
KeyPart == TrimSpace(SubSeq(Trimmed, 1, FirstEq - 1))
ValuePart == TrimSpace(SubSeq(Trimmed, FirstEq + 1, Len(Trimmed)))

\* One leading and one trailing character removed iff the text has at least
\* two characters and begins and ends with the same kind of quote.
Stripped(t) ==
    IF Len(t) >= 2 /\ t[1] = t[Len(t)] /\ t[1] \in {DQ, SQ}
    THEN SubSeq(t, 2, Len(t) - 1)
    ELSE t

\* C5 (quote stripping): the value stored for an accepted line is its
\* trimmed value part, with one leading and one trailing character removed
\* iff that part has at least two characters and begins and ends with the
\* same kind of quote; otherwise it is stored as it is, and what is stored
\* is not stripped or trimmed again.
C5_QuoteStripping ==
    (LineRead /\ Accepted) =>
        /\ ~ret.nil
        /\ KeyPart \in DOMAIN ret.m
        /\ ret.m[KeyPart] = Stripped(ValuePart)

\* K=" " : the quotes go, the blank between them stays.
C5_Witness ==
    /\ LineRead /\ pc = "exit"
    /\ TestLine = <<"K", "=", DQ, Space, DQ>>
    /\ ret.m[<<"K">>] = <<Space>>

\* C6 (line filtering): a line adds an entry iff, trimmed, it is non-empty,
\* does not begin with "#" and holds a "="; any other line adds nothing,
\* causes no error and leaves the entries of the lines around it as they are.
C6_LineFiltering ==
    LineRead =>
        /\ err = NoErr /\ ~ret.nil
        /\ \A k \in DOMAIN AroundMap : k \in DOMAIN ret.m /\ ret.m[k] = AroundMap[k]
        /\ Accepted <=> DOMAIN ret.m # DOMAIN AroundMap
        /\ Cardinality(DOMAIN ret.m) =
              Cardinality(DOMAIN AroundMap) + (IF Accepted THEN 1 ELSE 0)

\* J=a, a line without "=", L=b: exactly the two entries.
C6_Witness ==
    /\ LineRead /\ pc = "exit"
    /\ Around /\ TestLine = <<"K", "K">>
    /\ ret.m = (<<"J">> :> <<"a">>) @@ (<<"L">> :> <<"b">>)

\* C7 (empty key): a line that, trimmed, begins with "=" is accepted: the
\* returned map has the key "" with the trimmed, quote-stripped text after
\* the "=".
C7_EmptyKey ==
    (LineRead /\ Trimmed # <<>> /\ Trimmed[1] = "=") =>
        /\ ~ret.nil
        /\ <<>> \in DOMAIN ret.m
        /\ ret.m[<<>>] = Stripped(TrimSpace(Tail(Trimmed)))

\* The line =K gives the key "" the value K.
C7_Witness ==
    /\ LineRead /\ pc = "exit"
    /\ TestLine = <<"=", "K">>
    /\ <<>> \in DOMAIN ret.m /\ ret.m[<<>>] = <<"K">>

C9_NoExecOnLoadError ==
    /\ (Returned /\ err # NoErr) =>
          /\ ~child.started
          /\ printed = {}
          /\ pc \in {"loaded", "exit"}
          /\ pc = "loaded" => ENABLED RunEFail
          /\ pc = "exit" => (exit = 1 /\ stderr = err)
    /\ child.started => (Returned /\ err = NoErr /\ ~ret.nil /\ child.env = ret.m)
    /\ ~Returned => (~child.started /\ printed = {} /\ exit = -1)

\* A run that had loaded entries when a file failed, and ended with status 1.
C9_Witness ==
    /\ pc = "exit" /\ err # NoErr /\ stderr = err /\ exit = 1
    /\ envs # EmptyMap
    /\ ~child.started /\ printed = {}

\* What the search directory d contributes to a run without error.
Layer(d) ==
    IF fs[Join(d, Target)].exists /\ outcome[d] # "staterr"
    THEN FileMap(Join(d, Target)) ELSE EmptyMap

\* The later layer sets only the keys that are not set, whatever their value.
YieldTo(set, layer) ==
    [k \in DOMAIN set \cup DOMAIN layer |-> IF k \in DOMAIN set THEN set[k] ELSE layer[k]]

RECURSIVE RefMerge(_, _)
\* The reference strategy: the directories from highest to lowest priority.
RefMerge(ds, set) ==
    IF ds = <<>> THEN set ELSE RefMerge(Tail(ds), YieldTo(set, Layer(Head(ds))))

\* C10 (merge-strategy equivalence): the map LoadEnvFiles returns equals the
\* one obtained by applying the search directories from highest to lowest
\* priority, each layer setting only the keys not yet set (a key set to the
\* empty value is set).
C10_MergeEquivalence ==
    (Returned /\ err = NoErr) =>
        (~ret.nil /\ ret.m = RefMerge(Searched, EmptyMap))

\* The working directory sets K to the empty value, the configuration
\* directory sets K to a and J to b: K stays empty, J is taken over.
C10_Witness ==
    /\ BothLoaded /\ pc = "exit"
    /\ FileMap(PwdFile) = (<<"K">> :> <<>>)
    /\ FileMap(ConfigFile) = (<<"K">> :> <<"a">>) @@ (<<"J">> :> <<"b">>)
    /\ ret.m = (<<"K">> :> <<>>) @@ (<<"J">> :> <<"b">>)

(***************************************************************************)
(* Properties of keys that occur several times (Spec).                     *)
(***************************************************************************)
\* The lines of a file as loadEnvFile's loop reads them: [ok, key, value] each.
Parsed(lines) == [n \in 1..Len(lines) |-> ParseLine(lines[n])]

\* The keys the accepted lines set.
KeysSet(ps) == {ps[n].key : n \in {j \in 1..Len(ps) : ps[j].ok}}

\* The value of the last accepted line that sets k.
LastValue(ps, k) ==
    LET n == CHOOSE j \in 1..Len(ps) :
                 /\ ps[j].ok /\ ps[j].key = k
                 /\ \A l \in (j + 1)..Len(ps) : ~(ps[l].ok /\ ps[l].key = k)
    IN  ps[n].value

\* The target file of the search directory d was loaded in a run without error.
Loaded(d) == fs[Join(d, Target)].exists /\ outcome[d] # "staterr"

\* C11 (intra-file duplicates): in a run without error, a key set by a
\* loaded file and by no loaded file of higher priority has the value of
\* the last accepted line of that file that sets it; so a key the
\* working-directory file sets has the value of its last occurrence there,
\* however often the configuration file sets it.
C11_LastOccurrenceWins ==
    (Returned /\ err = NoErr) =>
        /\ ~ret.nil
        \* ps: the parsed lines of each search directory's loaded file;
        \* keys: the keys each sets
        /\ \A ps \in {[n \in 1..Len(Searched) |->
                         IF Loaded(Searched[n])
                         THEN Parsed(fs[Join(Searched[n], Target)].lines) ELSE <<>>]} :
              \A keys \in {[n \in 1..Len(ps) |-> KeysSet(ps[n])]} :
                 \A n \in 1..Len(ps) :
                    \A k \in keys[n] :
                       (\A h \in 1..(n - 1) : k \notin keys[h])
                       => (k \in DOMAIN ret.m /\ ret.m[k] = LastValue(ps[n], k))

\* The working-directory file sets K to a and then to the empty value, the
\* configuration file sets K to a: K is empty.
C11_Witness ==
    /\ BothLoaded /\ pc = "exit"
    /\ fs[PwdFile].lines = << <<"K", "=", "a">>, <<"K", "=">> >>
    /\ fs[ConfigFile].lines = << <<"K", "=", "a">> >>
    /\ ret.m = (<<"K">> :> <<>>)

====
